---------------------------- MODULE Spec2Model ----------------------------
(* EditorBar: a Blender addon that collapses / expands the Outliner and     *)
(* Properties editors as a sidebar of the 3D viewport.                      *)
(*                                                                          *)
(* Units.  Lengths are pixels.  Time is milliseconds.  A preference slider  *)
(* is stored in hundredths of a percent (41.75 % = 4175).  A split factor   *)
(* (a Python float in 0.0 .. 1.0) is stored in millionths (0.501 = 501000), *)
(* the resolution of the 1e-6 test of split_for_properties.                 *)
(* Python's None is 0 for a window, a screen or an area id, and the empty   *)
(* sequence for an optional object.  A screen is named by the window that   *)
(* owns it.                                                                 *)
EXTENDS Integers, Sequences, FiniteSets, TLC

VARIABLES
    hostVersion,   \* bpy.app.version
    areas,         \* areas[s]: screen.areas of screen s, in the host's order
    prefs,         \* the addon's EditorBarPreferences
    timerActive,   \* EditorBarPreferenceMonitor._timer_active
    lastPrefs,     \* EditorBarPreferenceMonitor._last_prefs ({} is << >>)
    pollTimers,    \* bpy.app.timers entries of _timer_callback (ms left)
    immTimers,     \* bpy.app.timers entries of _immediate_update (ms left)
    splitTimers,   \* bpy.app.timers entries of split_for_properties partials
    splitFunc,     \* editorbar._split_timer_func (None is << >>)
    sinceCall,     \* ms since the last schedule_immediate_update call (capped)
    ret,           \* what the last handler returned
    hostOps,       \* the host operators the last handler invoked, in order
    gotPrefs,      \* what get_editorbar_prefs returned to the last handler
    handler,       \* the handler the last step ran ("" when it ran none)
    prefChanges,   \* how many times the user has changed or reset the preferences
    hostFaults,    \* how many host operators have raised
    applyOnStartup,  \* the addon's applyOnStartup preference (release 0.4.7)
    loadPostHooked,  \* onLoadPost is in bpy.app.handlers.load_post (release 0.4.7)
    applyTimers,   \* bpy.app.timers entries of applyPrefsOnce (ms left)
    calls          \* functions called directly: how many calls, and the last one

vars == <<hostVersion, areas, prefs, timerActive, lastPrefs, pollTimers,
          immTimers, splitTimers, splitFunc, sinceCall, ret, hostOps, gotPrefs,
          handler, prefChanges, hostFaults, applyOnStartup, loadPostHooked,
          applyTimers, calls>>


-----------------------------------------------------------------------------
(* Bounds of the model *)

NumWindows == 2        \* open windows: the main window, and preferences windows
MaxAreas == 3          \* the host refuses to split a screen holding this many areas
TickMs == 25           \* how much time one Tick lets pass
MaxPrefChanges == 2    \* how many times the user changes or resets the preferences
MaxHostFaults == 1     \* how many times a host operator raises
MaxCalls == 2          \* how many direct calls of functions a run holds

Windows == 1..NumWindows

\* a step that returns nothing, invokes no host operator and reads no preferences
NoResult == ret' = "None" /\ hostOps' = << >> /\ gotPrefs' = ""

\* the host operators of the log ops that raised
Raised(ops) == {i \in DOMAIN ops : ~ops[i].ok}

\* the host raises at most MaxHostFaults times
CountFaults ==
    /\ hostFaults' = hostFaults + Cardinality(Raised(hostOps'))
    /\ hostFaults' <= MaxHostFaults

-----------------------------------------------------------------------------
(* Program constants *)

DEFAULT_LEFT_SIDEBAR == FALSE
DEFAULT_SPLIT_FACTOR == 4175
DEFAULT_STACK_RATIO == 6600
DEFAULT_FLIP_EDITORS == FALSE
DebounceDelayMs == 50
PollFirstMs == 100
PollIntervalMs == 150
SplitDelayMs == 200
MinSplitSize == 200
MinCloseSize == 50
MinStackHeight == 200
S_MIN == 1000
S_MAX == 4900
S_SUM == S_MIN + S_MAX
APPLY_ON_STARTUP_DEFAULT == TRUE
LoadPostDelayMs == 200
RegisterDelayMs == 400

SidebarTypes == {"OUTLINER", "PROPERTIES"}
NonMainTypes == {"OUTLINER", "PROPERTIES", "DOPESHEET_EDITOR"}

valid_types ==
    {"VIEW_3D", "OUTLINER", "PROPERTIES", "DOPESHEET_EDITOR", "PREFERENCES",
     "INFO", "FILE_BROWSER", "CONSOLE", "TEXT_EDITOR", "NODE_EDITOR",
     "IMAGE_EDITOR", "SEQUENCE_EDITOR", "CLIP_EDITOR", "SPREADSHEET",
     "NLA_EDITOR", "GRAPH_EDITOR"}

-----------------------------------------------------------------------------
(* Sequence helpers *)

Range(s) == {s[i] : i \in DOMAIN s}

RemoveAt(s, i) == [k \in 1..(Len(s) - 1) |-> IF k < i THEN s[k] ELSE s[k + 1]]

Max2(a, b) == IF a >= b THEN a ELSE b

Min2(a, b) == IF a <= b THEN a ELSE b

Abs(n) == IF n >= 0 THEN n ELSE 0 - n

-----------------------------------------------------------------------------
(* The host's screens *)

Area(id, type, x, y, width, height) ==
    [id |-> id, type |-> type, x |-> x, y |-> y, width |-> width, height |-> height]

AllAreas(ar) == UNION {Range(ar[s]) : s \in DOMAIN ar}

AreaIds(ar) == {a.id : a \in AllAreas(ar)}

\* the id the host gives the next area it creates
FreshId(ar) == CHOOSE n \in 1..(Cardinality(AreaIds(ar)) + 1) : n \notin AreaIds(ar)

\* index of the area with this id in a screen's areas, 0 when it is not there
IndexOf(as, id) ==
    IF \E i \in DOMAIN as : as[i].id = id
    THEN CHOOSE i \in DOMAIN as : as[i].id = id
    ELSE 0


\* bpy.ops.screen.area_split when it does not raise: the area is cut at
\* factor of its size, the new area is appended to screen.areas with the type
\* of the area it was cut from; it is the right / top part when factor > 0.5
\* and the left / bottom part otherwise.
HostAreaSplit(as, i, direction, factor, newId) ==
    LET a == as[i]
        size == IF direction = "VERTICAL" THEN a.width ELSE a.height
        cut == (size * factor) \div 1000000
        far == factor > 500000
        old == IF direction = "VERTICAL"
               THEN IF far THEN [a EXCEPT !.width = cut]
                           ELSE [a EXCEPT !.x = a.x + cut, !.width = size - cut]
               ELSE IF far THEN [a EXCEPT !.height = cut]
                           ELSE [a EXCEPT !.y = a.y + cut, !.height = size - cut]
        new == IF direction = "VERTICAL"
               THEN IF far THEN Area(newId, a.type, a.x + cut, a.y, size - cut, a.height)
                           ELSE Area(newId, a.type, a.x, a.y, cut, a.height)
               ELSE IF far THEN Area(newId, a.type, a.x, a.y + cut, a.width, size - cut)
                           ELSE Area(newId, a.type, a.x, a.y, a.width, cut)
    IN  Append([as EXCEPT ![i] = old], new)

\* whether the host can carry out the split: both parts keep a size, and the
\* screen is not full
HostCanSplit(as, i, direction, factor) ==
    LET a == as[i]
        size == IF direction = "VERTICAL" THEN a.width ELSE a.height
        cut == (size * factor) \div 1000000
    IN  Len(as) < MaxAreas /\ cut > 0 /\ cut < size

\* area b after it has taken over the place of its neighbour a
Absorb(b, a) ==
    Area(b.id, b.type, Min2(a.x, b.x), Min2(a.y, b.y),
         IF a.y = b.y /\ a.height = b.height THEN a.width + b.width ELSE b.width,
         IF a.y = b.y /\ a.height = b.height THEN b.height ELSE a.height + b.height)

\* b shares a whole edge with a
Adjacent(a, b) ==
    \/ /\ a.y = b.y /\ a.height = b.height
       /\ (b.x + b.width = a.x \/ a.x + a.width = b.x)
    \/ /\ a.x = b.x /\ a.width = b.width
       /\ (b.y + b.height = a.y \/ a.y + a.height = b.y)

\* bpy.ops.screen.area_close when it does not raise: a neighbour sharing a
\* whole edge takes the place of the closed area; every such neighbour is a
\* possible outcome
HostAreaClose(as, i) ==
    { RemoveAt([as EXCEPT ![j] = Absorb(as[j], as[i])], i) :
        j \in {k \in DOMAIN as : k # i /\ Adjacent(as[i], as[k])} }

-----------------------------------------------------------------------------
(* version_adapter.py *)

TupleGE(a, b) ==
    \/ a[1] > b[1]
    \/ a[1] = b[1] /\ a[2] > b[2]
    \/ a[1] = b[1] /\ a[2] = b[2] /\ a[3] >= b[3]

get_blender_version == hostVersion

\* "True", "False", or "None" when the function falls off its end
is_version_at_least(major, minor, patch) ==
    IF <<major, minor, patch>> = <<4, 5, 0>>
    THEN IF TupleGE(get_blender_version, <<4, 5, 0>>) THEN "True" ELSE "False"
    ELSE "None"

Truthy(v) == v = "True"

\* check_area with the dimension test of lines 96-104 left out
check_area_without_dimensions(ar, window, winScreen, screen, areaId) ==
    /\ window # 0 /\ screen # 0 /\ areaId # 0
    /\ winScreen = screen
    /\ screen \in DOMAIN ar
    /\ IndexOf(ar[screen], areaId) # 0
    /\ ar[screen][IndexOf(ar[screen], areaId)].type # ""

\* window.screen is winScreen; the area is named by its id
check_area(ar, window, winScreen, screen, areaId) ==
    /\ window # 0 /\ screen # 0 /\ areaId # 0
    /\ winScreen = screen
    /\ screen \in DOMAIN ar
    /\ IndexOf(ar[screen], areaId) # 0
    /\ LET a == ar[screen][IndexOf(ar[screen], areaId)]
       IN  a.width > 0 /\ a.height > 0 /\ a.type # ""

\* A host call as the log keeps it
Call(op, ok) == [op |-> op, ok |-> ok]

\* What a safe_* wrapper leaves behind: the screens, the log, its return value
Out(ar, ops, ok) == [areas |-> ar, ops |-> ops, ok |-> ok]

\* close_guard with the area count of lines 138-140 left out
close_guard_without_area_count(ar, window, winScreen, screen, areaId) ==
    /\ check_area(ar, window, winScreen, screen, areaId)
    /\ \/ Truthy(is_version_at_least(4, 5, 0))
       \/ LET a == ar[screen][IndexOf(ar[screen], areaId)]
          IN  ~(a.width < MinCloseSize \/ a.height < MinCloseSize)

close_guard(ar, window, winScreen, screen, areaId) ==
    /\ check_area(ar, window, winScreen, screen, areaId)
    /\ \/ Truthy(is_version_at_least(4, 5, 0))
       \/ LET a == ar[screen][IndexOf(ar[screen], areaId)]
          IN  /\ ~(Len(ar[screen]) < 2)
              /\ ~(a.width < MinCloseSize \/ a.height < MinCloseSize)

\* safe_area_close whose except block returns True
safe_area_close_hiding_failure(ar, ops, screen, window, winScreen, areaId) ==
    IF ~close_guard(ar, window, winScreen, screen, areaId)
    THEN {Out(ar, ops, FALSE)}
    ELSE { Out([ar EXCEPT ![screen] = as2], Append(ops, Call("area_close", TRUE)), TRUE) :
             as2 \in HostAreaClose(ar[screen], IndexOf(ar[screen], areaId)) }
         \cup {Out(ar, Append(ops, Call("area_close", FALSE)), TRUE)}

\* the set of outcomes: the host operator closes the area, or raises
safe_area_close(ar, ops, screen, window, winScreen, areaId) ==
    IF ~close_guard(ar, window, winScreen, screen, areaId)
    THEN {Out(ar, ops, FALSE)}
    ELSE { Out([ar EXCEPT ![screen] = as2], Append(ops, Call("area_close", TRUE)), TRUE) :
             as2 \in HostAreaClose(ar[screen], IndexOf(ar[screen], areaId)) }
         \cup {Out(ar, Append(ops, Call("area_close", FALSE)), FALSE)}

\* split_guard with the minimum size of lines 197-203 left out
split_guard_without_min_size(ar, window, winScreen, screen, areaId, direction, factor) ==
    /\ check_area(ar, window, winScreen, screen, areaId)
    /\ direction \in {"VERTICAL", "HORIZONTAL"}
    /\ 0 < factor /\ factor < 1000000
    /\ \/ Truthy(is_version_at_least(4, 5, 0))
       \/ ~(factor < 100000 \/ factor > 900000)

split_guard(ar, window, winScreen, screen, areaId, direction, factor) ==
    /\ check_area(ar, window, winScreen, screen, areaId)
    /\ direction \in {"VERTICAL", "HORIZONTAL"}
    /\ 0 < factor /\ factor < 1000000
    /\ \/ Truthy(is_version_at_least(4, 5, 0))
       \/ LET a == ar[screen][IndexOf(ar[screen], areaId)]
          IN  /\ ~(direction = "VERTICAL" /\ a.width < MinSplitSize)
              /\ ~(direction = "HORIZONTAL" /\ a.height < MinSplitSize)
              /\ ~(factor < 100000 \/ factor > 900000)

\* the set of outcomes: the host operator splits the area, or raises
safe_area_split(ar, ops, screen, window, winScreen, areaId, direction, factor) ==
    IF ~split_guard(ar, window, winScreen, screen, areaId, direction, factor)
    THEN {Out(ar, ops, FALSE)}
    ELSE LET i == IndexOf(ar[screen], areaId)
         IN  (IF HostCanSplit(ar[screen], i, direction, factor)
              THEN {Out([ar EXCEPT ![screen] =
                            HostAreaSplit(ar[screen], i, direction, factor, FreshId(ar))],
                        Append(ops, Call("area_split", TRUE)), TRUE)}
              ELSE {})
             \cup {Out(ar, Append(ops, Call("area_split", FALSE)), FALSE)}

\* safe_change_area_type with the whitelist test of lines 254-256 left out
safe_change_area_type_without_whitelist(ar, ops, screen, areaId, new_type) ==
    IF areaId = 0 \/ IndexOf(ar[screen], areaId) = 0
    THEN {Out(ar, ops, FALSE)}
    ELSE {Out([ar EXCEPT ![screen][IndexOf(ar[screen], areaId)].type = new_type],
              Append(ops, Call("area.type", TRUE)), TRUE),
          Out(ar, Append(ops, Call("area.type", FALSE)), FALSE)}

\* area.type = new_type, or the assignment raises
safe_change_area_type(ar, ops, screen, areaId, new_type) ==
    IF areaId = 0 \/ IndexOf(ar[screen], areaId) = 0 \/ new_type \notin valid_types
    THEN {Out(ar, ops, FALSE)}
    ELSE {Out([ar EXCEPT ![screen][IndexOf(ar[screen], areaId)].type = new_type],
              Append(ops, Call("area.type", TRUE)), TRUE),
          Out(ar, Append(ops, Call("area.type", FALSE)), FALSE)}

\* bpy.context as a timer callback sees it: window, window.screen, screen
validate_timer_context(ar, window, winScreen, screen) ==
    /\ window # 0
    /\ screen # 0
    /\ winScreen = screen
    /\ screen \in DOMAIN ar
    /\ Len(ar[screen]) > 0
    /\ \/ Truthy(is_version_at_least(4, 5, 0))
       \/ /\ ~(Len(ar[screen]) < 1)
          /\ \E a \in Range(ar[screen]) : a.width > 0 /\ a.height > 0

-----------------------------------------------------------------------------
(* editorbar.py *)

\* index of the first area, among those at the indices idx, with the largest
\* right edge (Python's max keeps the first of equal keys)
get_rightmost_area(as, idx) ==
    CHOOSE i \in idx :
        \A j \in idx : \/ as[j].x + as[j].width < as[i].x + as[i].width
                       \/ as[j].x + as[j].width = as[i].x + as[i].width /\ i <= j

has_sidebar_editors(as) == \E a \in Range(as) : a.type \in SidebarTypes

\* one pass of the loop of close_sidebars, from each outcome in outs
close_one(outs, screen, window, winScreen, area_type) ==
    UNION { LET as == o.areas[screen]
                idx == {i \in DOMAIN as : as[i].type = area_type}
            IN  IF idx # {}
                THEN safe_area_close(o.areas, o.ops, screen, window, winScreen,
                                     as[get_rightmost_area(as, idx)].id)
                ELSE {o}
          : o \in outs }

close_sidebars(ar, ops, screen, window, winScreen) ==
    close_one(close_one({Out(ar, ops, TRUE)}, screen, window, winScreen, "OUTLINER"),
              screen, window, winScreen, "PROPERTIES")

map_split_factor(slider_value) == slider_value * 100

map_stack_ratio(percentage) == percentage * 100

\* EditorBarPreferences._set_split with the inversion of line 242 left out
_set_split_without_inversion(value) == Max2(S_MIN, Min2(S_MAX, value))

\* EditorBarPreferences._set_split (release 0.4.7): what it stores in
\* split_factor_internal
_set_split(value) == S_SUM - Max2(S_MIN, Min2(S_MAX, value))

\* EditorBarPreferences._get_split (release 0.4.7): split_factor, read from
\* split_factor_internal
_get_split(split_factor_internal) ==
    S_SUM - Max2(S_MIN, Min2(S_MAX, split_factor_internal))

DefaultPrefs ==
    [kind |-> "DefaultPrefs", left_sidebar |-> FALSE, split_factor |-> 1900,
     stack_ratio |-> 6600, flip_editors |-> FALSE]

AddonStates == {"present", "other", "empty", "missing", "raises"}

\* addons: what context.preferences.addons is: it holds the package
\* ("present"), holds other packages only, is empty, is missing (None), or
\* reading context.preferences raises.  << >> is None.
get_editorbar_prefs(addons) ==
    CASE addons = "present" -> <<[kind |-> "AddonPrefs", left_sidebar |-> prefs.left_sidebar,
                                  split_factor |-> prefs.split_factor,
                                  stack_ratio |-> prefs.stack_ratio,
                                  flip_editors |-> prefs.flip_editors]>>
      [] addons = "raises" -> <<DefaultPrefs>>
      [] OTHER -> << >>

PrefsKind(got) == IF got = << >> THEN "None" ELSE got[1].kind

\* bpy.app.timers, for the partials of split_for_properties
Partial(screen, window, stack_ratio, flip_editors) ==
    [screen |-> screen, window |-> window, stack_ratio |-> stack_ratio,
     flip_editors |-> flip_editors]

TimerOf(f, ms) ==
    [screen |-> f.screen, window |-> f.window, stack_ratio |-> f.stack_ratio,
     flip_editors |-> f.flip_editors, ms |-> ms]

IsTimerOf(t, f) ==
    /\ t.screen = f.screen /\ t.window = f.window
    /\ t.stack_ratio = f.stack_ratio /\ t.flip_editors = f.flip_editors

split_is_registered(timers, func) ==
    func # << >> /\ \E i \in DOMAIN timers : IsTimerOf(timers[i], func[1])

split_unregister(timers, func) ==
    RemoveAt(timers, CHOOSE i \in DOMAIN timers :
                        /\ IsTimerOf(timers[i], func[1])
                        /\ \A j \in 1..(i - 1) : ~IsTimerOf(timers[j], func[1]))

\* What restore_sidebars leaves behind; ret is "True", "False" or "raise"
Restored(ar, ops, func, timers, r) ==
    [areas |-> ar, ops |-> ops, func |-> func, timers |-> timers, ret |-> r]

\* lines 96-103: the pending split timer is replaced by a new one
restore_register(timers, func, newFunc) ==
    Append(IF split_is_registered(timers, func) THEN split_unregister(timers, func)
           ELSE timers,
           TimerOf(newFunc, SplitDelayMs))

restore_sidebars(ar, ops, func, timers, screen, window, winScreen, addons) ==
    LET got == get_editorbar_prefs(addons) IN
    IF got = << >>
    THEN {Restored(ar, ops, func, timers, "raise")}
    ELSE
    LET p == got[1]
        split_factor == map_split_factor(5900 - p.split_factor)
        stack_ratio == map_stack_ratio(p.stack_ratio)
        split_value == IF p.left_sidebar THEN split_factor ELSE 1000000 - split_factor
        as == ar[screen]
        main == {i \in DOMAIN as : as[i].type \notin NonMainTypes}
    IN  IF main = {}
        THEN {Restored(ar, ops, func, timers, "False")}
        ELSE UNION {
               IF ~s.ok
               THEN {Restored(s.areas, s.ops, func, timers, "False")}
               ELSE LET as2 == s.areas[screen]
                        newFunc == Partial(screen, window, stack_ratio, p.flip_editors)
                    IN  { Restored(t.areas, t.ops, <<newFunc>>,
                                   restore_register(timers, func, newFunc), "True")
                          : t \in safe_change_area_type(s.areas, s.ops, screen,
                                                        as2[Len(as2)].id, "OUTLINER") }
               : s \in safe_area_split(ar, ops, screen, window, winScreen,
                                       as[get_rightmost_area(as, main)].id,
                                       "VERTICAL", split_value) }

\* stack_types with flip_editors taken as false
stack_types_ignoring_flip(o, screen, top, bottom, flip_editors) ==
    UNION { safe_change_area_type(t.areas, t.ops, screen, bottom, "OUTLINER")
            : t \in safe_change_area_type(o.areas, o.ops, screen, top, "PROPERTIES") }

\* the two retypings that end split_for_properties, from the outcome o of the split
stack_types(o, screen, top, bottom, flip_editors) ==
    UNION { safe_change_area_type(t.areas, t.ops, screen, bottom,
                                  IF flip_editors THEN "PROPERTIES" ELSE "OUTLINER")
            : t \in safe_change_area_type(o.areas, o.ops, screen, top,
                                          IF flip_editors THEN "OUTLINER" ELSE "PROPERTIES") }

nudge(split_factor) ==
    IF Abs(split_factor - 500000) < 1 THEN 501000 ELSE split_factor

\* the set of outcomes of the timer callback; it always returns None
split_for_properties(ar, ops, screen, window, winScreen, stack_ratio, flip_editors) ==
    LET as == ar[screen]
        outl == {i \in DOMAIN as : as[i].type = "OUTLINER"}
    IN  IF outl = {}
        THEN {Out(ar, ops, FALSE)}
        ELSE
        LET original == as[get_rightmost_area(as, outl)] IN
        IF original.height < MinStackHeight
        THEN {Out(ar, ops, FALSE)}
        ELSE UNION {
               IF ~s.ok
               THEN {Out(s.areas, s.ops, FALSE)}
               ELSE LET as2 == s.areas[screen]
                        newIdx == {i \in DOMAIN as2 : as2[i].id \notin {a.id : a \in Range(as)}}
                    IN  IF newIdx = {}
                        THEN {Out(s.areas, s.ops, FALSE)}
                        ELSE LET new == as2[CHOOSE i \in newIdx : \A j \in newIdx : i <= j]
                                 orig == as2[IndexOf(as2, original.id)]
                             IN  IF new.y > orig.y
                                 THEN stack_types(s, screen, new.id, orig.id, flip_editors)
                                 ELSE stack_types(s, screen, orig.id, new.id, flip_editors)
               : s \in safe_area_split(ar, ops, screen, window, winScreen, original.id,
                                       "HORIZONTAL", nudge(stack_ratio)) }

-----------------------------------------------------------------------------
(* bpy.context, as a handler reads it.  area is the id of context.area,    *)
(* window is context.window, winScreen is context.window.screen, screen is *)
(* context.screen, addons is the state of context.preferences.addons.      *)

Context(area, window, winScreen, screen, addons) ==
    [area |-> area, window |-> window, winScreen |-> winScreen, screen |-> screen,
     addons |-> addons]

\* area.type of the area with this id
TypeOf(ar, id) == (CHOOSE a \in AllAreas(ar) : a.id = id).type

-----------------------------------------------------------------------------
(* __init__.py: EditorBarPreferenceMonitor *)

_is_preferences_context(ar, c) ==
    /\ c.addons # "raises"
    /\ c.area # 0 /\ TypeOf(ar, c.area) = "PREFERENCES"
    /\ c.addons # "missing"
    /\ c.addons = "present"

\* schedule_immediate_update with the unregister of lines 52-53 left out
schedule_without_cancel(timers) == Append(timers, DebounceDelayMs)

\* bpy.app.timers.register(self._immediate_update, first_interval=0.05),
\* after the pending one, if any, was unregistered
schedule_immediate_update(timers) ==
    Append(IF timers # << >> THEN Tail(timers) ELSE timers, DebounceDelayMs)

\* _start_timer: the flag and the registry <<_timer_active, entries>>
_start_timer(active, timers) ==
    IF ~active
    THEN <<TRUE, IF timers = << >> THEN Append(timers, PollFirstMs) ELSE timers>>
    ELSE <<active, timers>>

\* _stop_timer with the assignment of line 76 left out
_stop_timer_keeps_flag(active, timers) ==
    IF active
    THEN <<active, IF timers # << >> THEN Tail(timers) ELSE timers>>
    ELSE <<active, timers>>

_stop_timer(active, timers) ==
    IF active
    THEN <<FALSE, IF timers # << >> THEN Tail(timers) ELSE timers>>
    ELSE <<active, timers>>

activate_monitoring(ar, c, active, timers) ==
    IF ~active /\ _is_preferences_context(ar, c)
    THEN _start_timer(active, timers)
    ELSE <<active, timers>>

CurrentPrefs ==
    [left_sidebar |-> prefs.left_sidebar, split_factor |-> prefs.split_factor,
     stack_ratio |-> prefs.stack_ratio, flip_editors |-> prefs.flip_editors]

\* What _timer_callback leaves behind: the interval it returns (0 for None),
\* _timer_active, _last_prefs, and the registries of the two monitor timers
\* before the host acts on the return value
Polled(interval, active, last, poll, imm) ==
    [interval |-> interval, active |-> active, last |-> last, poll |-> poll, imm |-> imm]

\* The diff without the try of line 121: an exception ends the callback, and
\* the host drops a timer whose callback raised
poll_prefs_unguarded(c, readable) ==
    IF c.addons = "missing"
    THEN Polled(PollIntervalMs, timerActive, lastPrefs, pollTimers, immTimers)
    ELSE IF ~readable
    THEN Polled(0, timerActive, lastPrefs, pollTimers, immTimers)
    ELSE IF <<CurrentPrefs>> # lastPrefs
    THEN Polled(PollIntervalMs, timerActive, <<CurrentPrefs>>, pollTimers,
                schedule_immediate_update(immTimers))
    ELSE Polled(PollIntervalMs, timerActive, lastPrefs, pollTimers, immTimers)

\* The diff with the assignment of line 136 left out
poll_prefs_without_snapshot(c, readable) ==
    IF c.addons = "missing"
    THEN Polled(PollIntervalMs, timerActive, lastPrefs, pollTimers, immTimers)
    ELSE IF ~readable
    THEN Polled(PollIntervalMs, timerActive, lastPrefs, pollTimers, immTimers)
    ELSE IF <<CurrentPrefs>> # lastPrefs
    THEN Polled(PollIntervalMs, timerActive, lastPrefs, pollTimers,
                schedule_immediate_update(immTimers))
    ELSE Polled(PollIntervalMs, timerActive, lastPrefs, pollTimers, immTimers)

\* _timer_callback, lines 120-143: the diff against the last snapshot.
\* readable: reading the addon's preferences does not raise
poll_prefs(c, readable) ==
    IF c.addons = "missing"
    THEN Polled(PollIntervalMs, timerActive, lastPrefs, pollTimers, immTimers)
    ELSE IF ~readable
    THEN Polled(PollIntervalMs, timerActive, lastPrefs, pollTimers, immTimers)
    ELSE IF <<CurrentPrefs>> # lastPrefs
    THEN Polled(PollIntervalMs, timerActive, <<CurrentPrefs>>, pollTimers,
                schedule_immediate_update(immTimers))
    ELSE Polled(PollIntervalMs, timerActive, lastPrefs, pollTimers, immTimers)

_timer_callback(ar, c, readable) ==
    IF ~_is_preferences_context(ar, c) \/ ~validate_timer_context(ar, c.window, c.winScreen, c.screen)
    THEN LET st == _stop_timer(timerActive, pollTimers)
         IN  Polled(0, st[1], lastPrefs, st[2], immTimers)
    ELSE poll_prefs(c, readable)

\* _update_viewports with the has_sidebar_editors test of line 181 left out
_update_viewports_unconditional(ar, func, timers, c) ==
    IF \/ ~validate_timer_context(ar, c.window, c.winScreen, c.screen)
       \/ c.screen = 0 \/ c.window = 0 \/ c.winScreen # c.screen
    THEN {Restored(ar, << >>, func, timers, "None")}
    ELSE UNION { restore_sidebars(o.areas, o.ops, func, timers, c.screen, c.window,
                                  c.winScreen, c.addons)
                 : o \in close_sidebars(ar, << >>, c.screen, c.window, c.winScreen) }

\* the set of outcomes of _update_viewports under bpy.context c
_update_viewports(ar, func, timers, c) ==
    IF \/ ~validate_timer_context(ar, c.window, c.winScreen, c.screen)
       \/ c.screen = 0 \/ c.window = 0 \/ c.winScreen # c.screen
       \/ ~has_sidebar_editors(ar[c.screen])
    THEN {Restored(ar, << >>, func, timers, "None")}
    ELSE UNION { restore_sidebars(o.areas, o.ops, func, timers, c.screen, c.window,
                                  c.winScreen, c.addons)
                 : o \in close_sidebars(ar, << >>, c.screen, c.window, c.winScreen) }

-----------------------------------------------------------------------------
(* Initial states *)

SplitFactorValues == {DEFAULT_SPLIT_FACTOR, 4900}
StackRatioValues == {DEFAULT_STACK_RATIO, 5100}

HostVersions == {<<4, 2, 0>>, <<4, 5, 0>>}

\* Screens a window can show when the addon starts or a file is loaded; b
\* keeps the ids of different windows apart
Layouts(b) ==
    { <<Area(b + 1, "VIEW_3D", 0, 0, 1000, 600)>>,
      <<Area(b + 1, "VIEW_3D", 0, 0, 700, 600),
        Area(b + 2, "OUTLINER", 700, 400, 300, 200),
        Area(b + 3, "PROPERTIES", 700, 0, 300, 400)>>,
      <<Area(b + 1, "VIEW_3D", 0, 0, 600, 600),
        Area(b + 2, "OUTLINER", 600, 0, 200, 600),
        Area(b + 3, "OUTLINER", 800, 0, 200, 600)>>,
      <<Area(b + 1, "VIEW_3D", 0, 0, 180, 180)>>,
      <<Area(b + 1, "DOPESHEET_EDITOR", 0, 0, 1000, 600)>>,
      <<Area(b + 1, "VIEW_3D", 0, 0, 1000, 600),
        Area(b + 2, "VIEW_3D", 1000, 0, 0, 600)>> }

\* The screen of a window the host opens for the preferences
PrefsWindow(b) == <<Area(b + 1, "PREFERENCES", 0, 0, 800, 600)>>

\* window 1 shows the main screen, the others are preferences windows
Screens(main) == [w \in Windows |-> IF w = 1 THEN main ELSE PrefsWindow(10 * w)]

InitAreas == {Screens(l) : l \in Layouts(10)}

PrefValues ==
    [left_sidebar : BOOLEAN, split_factor : SplitFactorValues,
     stack_ratio : StackRatioValues, flip_editors : BOOLEAN]

DefaultAddonPrefs ==
    [left_sidebar |-> DEFAULT_LEFT_SIDEBAR, split_factor |-> DEFAULT_SPLIT_FACTOR,
     stack_ratio |-> DEFAULT_STACK_RATIO, flip_editors |-> DEFAULT_FLIP_EDITORS]

\* The state after register(): the host shows screens, the preferences hold
\* prefs, the monitor is idle and no timer is registered
Start(screens, prefValues) ==
    /\ hostVersion \in HostVersions
    /\ areas \in screens
    /\ prefs \in prefValues
    /\ timerActive = FALSE
    /\ lastPrefs = << >>
    /\ pollTimers = << >>
    /\ immTimers = << >>
    /\ splitTimers = << >>
    /\ splitFunc = << >>
    /\ sinceCall = DebounceDelayMs
    /\ ret = "None"
    /\ hostOps = << >>
    /\ gotPrefs = ""
    /\ handler = ""
    /\ prefChanges = 0
    /\ hostFaults = 0
    /\ applyOnStartup = APPLY_ON_STARTUP_DEFAULT
    /\ loadPostHooked = FALSE
    /\ applyTimers = << >>
    /\ calls = [made |-> 0, last |-> << >>]

\* The preferences the operators are run with: the defaults, or every one changed
OperatorPrefValues ==
    {p \in PrefValues :
        /\ p.left_sidebar = p.flip_editors
        /\ (p.split_factor = DEFAULT_SPLIT_FACTOR) = (p.stack_ratio = DEFAULT_STACK_RATIO)}

Init == Start(InitAreas, OperatorPrefValues)

-----------------------------------------------------------------------------
(* Actions *)

AreaChoices == AreaIds(areas) \cup {0}
WindowChoices == DOMAIN areas \cup {0}

\* The checks of execute with the check_area call of lines 193-195 left out
cancelled_without_check_area(ar, c) ==
    \/ c.area = 0 \/ TypeOf(ar, c.area) # "VIEW_3D"
    \/ c.window = 0
    \/ c.winScreen = 0

\* EDITORBAR_OT_toggle_sidebar.execute, lines 174-195: the checks that end it
\* with CANCELLED before it touches the layout
cancelled(ar, c) ==
    \/ c.area = 0 \/ TypeOf(ar, c.area) # "VIEW_3D"
    \/ c.window = 0
    \/ c.winScreen = 0
    \/ ~check_area(ar, c.window, c.winScreen, c.winScreen, c.area)

\* EDITORBAR_OT_toggle_sidebar.execute
Toggle(c) ==
    /\ handler' = "toggle_sidebar"
    /\ UNCHANGED <<calls, applyOnStartup, loadPostHooked, applyTimers>>
    /\ UNCHANGED <<hostVersion, prefs, timerActive, lastPrefs, pollTimers, immTimers,
                   sinceCall, prefChanges>>
    /\ IF cancelled(areas, c)
       THEN /\ ret' = "CANCELLED"
            /\ hostOps' = << >>
            /\ gotPrefs' = ""
            /\ UNCHANGED <<areas, splitTimers, splitFunc>>
       ELSE IF has_sidebar_editors(areas[c.winScreen])
       THEN /\ \E o \in close_sidebars(areas, << >>, c.winScreen, c.window, c.winScreen) :
                 areas' = o.areas /\ hostOps' = o.ops
            /\ ret' = "FINISHED"
            /\ gotPrefs' = ""
            /\ UNCHANGED <<splitTimers, splitFunc>>
       ELSE /\ \E r \in restore_sidebars(areas, << >>, splitFunc, splitTimers,
                                         c.winScreen, c.window, c.winScreen, c.addons) :
                 /\ areas' = r.areas /\ hostOps' = r.ops
                 /\ splitFunc' = r.func /\ splitTimers' = r.timers
                 /\ ret' = IF r.ret = "raise" THEN "CANCELLED" ELSE "FINISHED"
            /\ gotPrefs' = PrefsKind(get_editorbar_prefs(c.addons))
    /\ CountFaults

\* The host runs a due split_for_properties timer; winScreen is window.screen
\* by then (0 when the window shows another screen)
SplitTimer(i, winScreen) ==
    /\ i \in DOMAIN splitTimers
    /\ splitTimers[i].ms = 0
    /\ LET t == splitTimers[i]
       IN  \E o \in split_for_properties(areas, << >>, t.screen, t.window, winScreen,
                                         t.stack_ratio, t.flip_editors) :
              areas' = o.areas /\ hostOps' = o.ops
    /\ splitTimers' = RemoveAt(splitTimers, i)
    /\ handler' = "split_for_properties"
    /\ ret' = "None"
    /\ gotPrefs' = ""
    /\ CountFaults
    /\ UNCHANGED <<calls, applyOnStartup, loadPostHooked, applyTimers>>
    /\ UNCHANGED <<hostVersion, prefs, timerActive, lastPrefs, pollTimers, immTimers,
                   splitFunc, sinceCall, prefChanges>>

Elapse(ms, dt) == Max2(0, ms - dt)

\* dt ms pass
Tick(dt) ==
    /\ dt > 0
    /\ pollTimers' = [i \in DOMAIN pollTimers |-> Elapse(pollTimers[i], dt)]
    /\ immTimers' = [i \in DOMAIN immTimers |-> Elapse(immTimers[i], dt)]
    /\ splitTimers' = [i \in DOMAIN splitTimers |->
                         [splitTimers[i] EXCEPT !.ms = Elapse(splitTimers[i].ms, dt)]]
    /\ applyTimers' = [i \in DOMAIN applyTimers |-> Elapse(applyTimers[i], dt)]
    /\ sinceCall' = Min2(DebounceDelayMs, sinceCall + dt)
    /\ handler' = ""
    /\ NoResult
    /\ UNCHANGED <<calls, applyOnStartup, loadPostHooked>>
    /\ UNCHANGED <<hostVersion, areas, prefs, timerActive, lastPrefs, splitFunc,
                   prefChanges, hostFaults>>

\* on_sidebar_settings_update
on_sidebar_settings_update ==
    /\ immTimers' = schedule_immediate_update(immTimers)
    /\ sinceCall' = 0

\* The user changes one preference in the preferences panel; the host calls
\* the property's update callback
SetPref(p) ==
    /\ p # prefs
    /\ Cardinality({f \in DOMAIN p : p[f] # prefs[f]}) = 1
    /\ prefChanges < MaxPrefChanges
    /\ prefChanges' = prefChanges + 1
    /\ prefs' = p
    /\ on_sidebar_settings_update
    /\ handler' = "on_sidebar_settings_update"
    /\ NoResult
    /\ UNCHANGED <<calls, applyOnStartup, loadPostHooked, applyTimers>>
    /\ UNCHANGED <<hostVersion, areas, timerActive, lastPrefs, pollTimers, splitTimers,
                   splitFunc, hostFaults>>

\* The host runs a due _immediate_update timer under bpy.context c
ImmediateUpdate(i, c) ==
    /\ i \in DOMAIN immTimers
    /\ immTimers[i] = 0
    /\ \E r \in _update_viewports(areas, splitFunc, splitTimers, c) :
          /\ areas' = r.areas /\ hostOps' = r.ops
          /\ splitFunc' = r.func /\ splitTimers' = r.timers
          /\ gotPrefs' = IF r.ret = "None" THEN ""
                         ELSE PrefsKind(get_editorbar_prefs(c.addons))
    /\ immTimers' = RemoveAt(immTimers, i)
    /\ handler' = "_immediate_update"
    /\ ret' = "None"
    /\ CountFaults
    /\ UNCHANGED <<calls, applyOnStartup, loadPostHooked, applyTimers>>
    /\ UNCHANGED <<hostVersion, prefs, timerActive, lastPrefs, pollTimers, sinceCall,
                   prefChanges>>

\* EditorBarPreferences.draw
Draw(c) ==
    /\ LET st == activate_monitoring(areas, c, timerActive, pollTimers)
       IN  timerActive' = st[1] /\ pollTimers' = st[2]
    /\ handler' = "draw"
    /\ NoResult
    /\ UNCHANGED <<calls, applyOnStartup, loadPostHooked, applyTimers>>
    /\ UNCHANGED <<hostVersion, areas, prefs, lastPrefs, immTimers, splitTimers,
                   splitFunc, sinceCall, prefChanges, hostFaults>>

\* The host runs a due _timer_callback timer under bpy.context c, and re-arms
\* or drops it as the callback's return value says
PollTick(i, c, readable) ==
    /\ i \in DOMAIN pollTimers
    /\ pollTimers[i] = 0
    /\ LET r == _timer_callback(areas, c, readable)
       IN  /\ timerActive' = r.active
           /\ lastPrefs' = r.last
           /\ immTimers' = r.imm
           /\ sinceCall' = IF r.imm # immTimers THEN 0 ELSE sinceCall
           /\ pollTimers' =
                 IF r.interval > 0
                 THEN [r.poll EXCEPT ![i] = r.interval]
                 ELSE IF Len(r.poll) < Len(pollTimers) /\ i = 1 THEN r.poll
                 ELSE RemoveAt(r.poll, IF Len(r.poll) < Len(pollTimers) THEN i - 1 ELSE i)
           /\ ret' = IF r.interval > 0 THEN "0.15" ELSE "None"
    /\ handler' = "_timer_callback"
    /\ hostOps' = << >>
    /\ gotPrefs' = ""
    /\ UNCHANGED <<calls, applyOnStartup, loadPostHooked, applyTimers>>
    /\ UNCHANGED <<hostVersion, areas, prefs, splitTimers, splitFunc, prefChanges, hostFaults>>

\* onLoadPost (release 0.4.7), a persistent load_post handler
onLoadPost(timers) == Append(timers, LoadPostDelayMs)

\* The host loads a file: it drops the timers registered without
\* persistent=True, shows the screens of the file and runs the load_post
\* handlers
FileLoad(ar) ==
    /\ areas' = ar
    /\ pollTimers' = << >>
    /\ immTimers' = << >>
    /\ splitTimers' = << >>
    /\ applyTimers' = IF loadPostHooked THEN onLoadPost(<< >>) ELSE << >>
    /\ handler' = "load"
    /\ NoResult
    /\ UNCHANGED <<calls, applyOnStartup, loadPostHooked>>
    /\ UNCHANGED <<hostVersion, prefs, timerActive, lastPrefs, splitFunc, sinceCall,
                   prefChanges, hostFaults>>

\* unregister: EditorBarPreferenceMonitor.cleanup, and (release 0.4.7)
\* onLoadPost is taken out of load_post
Unregister ==
    /\ LET st == _stop_timer(timerActive, pollTimers)
       IN  timerActive' = st[1] /\ pollTimers' = st[2]
    /\ immTimers' = IF immTimers # << >> THEN Tail(immTimers) ELSE immTimers
    /\ loadPostHooked' = FALSE
    /\ handler' = "unregister"
    /\ NoResult
    /\ UNCHANGED <<calls, applyOnStartup, applyTimers>>
    /\ UNCHANGED <<hostVersion, areas, prefs, lastPrefs, splitTimers, splitFunc,
                   sinceCall, prefChanges, hostFaults>>

Releases == {"0.4.1", "0.4.7"}

\* type(prefs).bl_rna.properties[prop].default as setattr leaves it in prefs;
\* release 0.4.7 keeps split_factor behind _set_split / _get_split
reset_values(release) ==
    [left_sidebar |-> DEFAULT_LEFT_SIDEBAR,
     split_factor |-> IF release = "0.4.7"
                      THEN _get_split(_set_split(DEFAULT_SPLIT_FACTOR))
                      ELSE DEFAULT_SPLIT_FACTOR,
     stack_ratio |-> DEFAULT_STACK_RATIO,
     flip_editors |-> DEFAULT_FLIP_EDITORS]

\* EDITORBAR_OT_reset_preferences.execute.  Release 0.4.1 indexes
\* context.preferences.addons and raises without the package; release 0.4.7
\* returns CANCELLED.  Each setattr runs the property's update callback, and
\* execute calls on_sidebar_settings_update once more.
ResetPreferences(c, release) ==
    /\ handler' = "reset_preferences"
    /\ hostOps' = << >>
    /\ gotPrefs' = ""
    /\ IF c.addons = "present"
       THEN /\ prefChanges < MaxPrefChanges
            /\ prefChanges' = prefChanges + 1
            /\ prefs' = reset_values(release)
            /\ immTimers' = schedule_immediate_update(schedule_immediate_update(
                              schedule_immediate_update(schedule_immediate_update(
                                schedule_immediate_update(immTimers)))))
            /\ sinceCall' = 0
            /\ ret' = "FINISHED"
       ELSE /\ ret' = IF release = "0.4.7" /\ c.addons # "raises"
                      THEN "CANCELLED" ELSE "raise"
            /\ UNCHANGED <<prefs, immTimers, sinceCall, prefChanges>>
    /\ UNCHANGED <<calls, applyOnStartup, loadPostHooked, applyTimers>>
    /\ UNCHANGED <<hostVersion, areas, timerActive, lastPrefs, pollTimers, splitTimers,
                   splitFunc, hostFaults>>

\* wm.windows without the windows that show no screen
wm_windows(blank) == SelectSeq([w \in Windows |-> w], LAMBDA w : w \notin blank)

\* the body of applyPrefsOnce's loop for one window, from the outcome r of
\* the windows before it: close_sidebars if the screen holds a sidebar
\* editor, then restore_sidebars; an exception ends the window's turn
apply_window(r, window, addons) ==
    UNION { restore_sidebars(o.areas, o.ops, r.func, r.timers, window, window, window,
                             addons)
            : o \in IF has_sidebar_editors(r.areas[window])
                    THEN close_sidebars(r.areas, r.ops, window, window, window)
                    ELSE {Out(r.areas, r.ops, TRUE)} }

RECURSIVE apply_windows(_, _, _)
apply_windows(rs, windows, addons) ==
    IF windows = << >> THEN rs
    ELSE apply_windows(UNION {apply_window(r, Head(windows), addons) : r \in rs},
                       Tail(windows), addons)

\* applyPrefsOnce with the test of applyOnStartup (line 370) left out
applyPrefsOnce_ignoring_preference(ar, func, timers, addons, wm, enabled, blank) ==
    IF addons # "present" \/ ~wm
    THEN {Restored(ar, << >>, func, timers, "None")}
    ELSE apply_windows({Restored(ar, << >>, func, timers, "None")}, wm_windows(blank),
                       addons)

\* applyPrefsOnce (release 0.4.7).  addons is the state of
\* bpy.context.preferences.addons, wm whether bpy.context.window_manager is
\* there, enabled is prefs.applyOnStartup, blank the windows without a screen
applyPrefsOnce(ar, func, timers, addons, wm, enabled, blank) ==
    IF addons # "present" \/ ~enabled \/ ~wm
    THEN {Restored(ar, << >>, func, timers, "None")}
    ELSE apply_windows({Restored(ar, << >>, func, timers, "None")}, wm_windows(blank),
                       addons)

\* The host runs a due applyPrefsOnce timer; the function returns None, so
\* the host drops the timer
ApplyPrefsOnce(i, c, wm, blank) ==
    /\ i \in DOMAIN applyTimers
    /\ applyTimers[i] = 0
    /\ applyTimers' = RemoveAt(applyTimers, i)
    /\ handler' = "applyPrefsOnce"
    /\ ret' = "None"
    /\ \E r \in applyPrefsOnce(areas, splitFunc, splitTimers, c.addons, wm,
                               applyOnStartup, blank) :
          /\ areas' = r.areas /\ hostOps' = r.ops
          /\ splitFunc' = r.func /\ splitTimers' = r.timers
          /\ gotPrefs' = IF r.ret = "None" THEN ""
                         ELSE PrefsKind(get_editorbar_prefs(c.addons))
    /\ CountFaults
    /\ UNCHANGED <<calls, applyOnStartup, loadPostHooked>>
    /\ UNCHANGED <<hostVersion, prefs, timerActive, lastPrefs, pollTimers, immTimers,
                   sinceCall, prefChanges>>

\* EDITORBAR_OT_debug_prefs.execute: reading an attribute of None raises
DebugPrefs(c) ==
    /\ handler' = "debug_prefs"
    /\ gotPrefs' = PrefsKind(get_editorbar_prefs(c.addons))
    /\ ret' = IF get_editorbar_prefs(c.addons) = << >> THEN "AttributeError" ELSE "FINISHED"
    /\ hostOps' = << >>
    /\ UNCHANGED <<calls, applyOnStartup, loadPostHooked, applyTimers>>
    /\ UNCHANGED <<hostVersion, areas, prefs, timerActive, lastPrefs, pollTimers,
                   immTimers, splitTimers, splitFunc, sinceCall, prefChanges, hostFaults>>

\* The contexts the handlers are run under.  (window, window.screen, screen)
\* is sound for window w, or lacks the window, the window's screen or the
\* context's screen.
ScreenCases ==
    UNION { {<<w, w, w>>, <<0, 0, w>>, <<w, 0, w>>, <<w, w, 0>>} : w \in DOMAIN areas }

AddonCases == {"present", "other", "raises"}

Contexts ==
    {Context(a, t[1], t[2], t[3], ad) :
        a \in AreaChoices, t \in ScreenCases, ad \in AddonCases}

\* An operator reads context.area and context.window only: the window is
\* sound, is missing, or shows no screen
OperatorContexts ==
    {Context(a, t[1], t[2], t[2], ad) :
        a \in AreaChoices,
        t \in UNION { {<<w, w>>, <<0, 0>>, <<w, 0>>} : w \in DOMAIN areas },
        ad \in AddonCases}

PrefsContexts ==
    {Context(0, 0, 0, 0, ad) : ad \in AddonStates}

\* the time until the next pending timer is due
NextDue ==
    LET pending == {pollTimers[i] : i \in DOMAIN pollTimers}
                   \cup {immTimers[i] : i \in DOMAIN immTimers}
                   \cup {splitTimers[i].ms : i \in DOMAIN splitTimers}
                   \cup {applyTimers[i] : i \in DOMAIN applyTimers}
        positive == {ms \in pending : ms > 0}
    IN  IF positive = {} THEN 0
        ELSE CHOOSE ms \in positive : \A other \in positive : ms <= other

\* The sidebar in use: the operators, the timers they arm, and the
\* preference changes that re-lay it out
Next ==
    \/ \E c \in OperatorContexts : Toggle(c)
    \/ \E i \in DOMAIN splitTimers : \E ws \in {0, splitTimers[i].screen} : SplitTimer(i, ws)
    \/ Tick(NextDue)
    \/ \E c \in PrefsContexts : DebugPrefs(c)

Spec == Init /\ [][Next]_vars

\* The preferences shown over a collapsed sidebar: the panel is drawn, the
\* monitor polls, the user changes preferences, files are loaded and the addon
\* is disabled.  The main screen is ordinary, or minimised to nothing.
MonitorLayouts(b) ==
    { <<Area(b + 1, "VIEW_3D", 0, 0, 1000, 600)>>,
      <<Area(b + 1, "VIEW_3D", 0, 0, 0, 0)>> }

MonitorAreas == {Screens(l) : l \in MonitorLayouts(10)}

MonitorInit == Start(MonitorAreas, {DefaultAddonPrefs})

MonitorNext ==
    \/ \E c \in Contexts : Draw(c)
    \/ \E i \in DOMAIN pollTimers : \E c \in Contexts : \E rd \in BOOLEAN : PollTick(i, c, rd)
    \/ Tick(TickMs)
    \/ \E p \in PrefValues : SetPref(p)
    \/ \E i \in DOMAIN immTimers : \E c \in Contexts : ImmediateUpdate(i, c)
    \/ \E ar \in MonitorAreas : FileLoad(ar)
    \/ Unregister
    \/ \E c \in PrefsContexts : \E release \in Releases : ResetPreferences(c, release)

MonitorSpec == MonitorInit /\ [][MonitorNext]_vars

\* The host runs its timers: time passes, and a due timer is run
FairMonitorSpec ==
    /\ MonitorSpec
    /\ WF_vars(Tick(TickMs))
    /\ WF_vars(\E i \in DOMAIN immTimers : \E c \in Contexts : ImmediateUpdate(i, c))

\* Preference changes re-laying out the sidebar of the main screen
UpdateInit == Start(InitAreas, {DefaultAddonPrefs})

UpdateNext ==
    \/ \E p \in PrefValues : SetPref(p)
    \/ Tick(NextDue)
    \/ \E i \in DOMAIN immTimers : \E c \in Contexts : ImmediateUpdate(i, c)
    \/ \E i \in DOMAIN splitTimers : \E ws \in {0, splitTimers[i].screen} : SplitTimer(i, ws)

UpdateSpec == UpdateInit /\ [][UpdateNext]_vars

\* Startup (release 0.4.7): register() has hooked onLoadPost and scheduled
\* applyPrefsOnce; files are loaded, the timers run, the addon is disabled.
\* The second window is a preferences window or a second main window.
StartupAreas ==
    { [w \in Windows |-> IF w = 1 THEN l
                         ELSE IF w = 2 THEN m ELSE PrefsWindow(10 * w)]
      : l \in Layouts(10),
        m \in {PrefsWindow(20), <<Area(21, "VIEW_3D", 0, 0, 1000, 600)>>} }

StartupInit ==
    /\ hostVersion \in HostVersions
    /\ areas \in StartupAreas
    /\ prefs = DefaultAddonPrefs
    /\ applyOnStartup \in BOOLEAN
    /\ loadPostHooked = TRUE
    /\ applyTimers = <<RegisterDelayMs>>
    /\ timerActive = FALSE
    /\ lastPrefs = << >>
    /\ pollTimers = << >>
    /\ immTimers = << >>
    /\ splitTimers = << >>
    /\ splitFunc = << >>
    /\ sinceCall = DebounceDelayMs
    /\ ret = "None"
    /\ hostOps = << >>
    /\ gotPrefs = ""
    /\ handler = ""
    /\ prefChanges = 0
    /\ hostFaults = 0
    /\ calls = [made |-> 0, last |-> << >>]

StartupNext ==
    \/ \E i \in DOMAIN applyTimers : \E c \in PrefsContexts : \E wm \in BOOLEAN :
          \E blank \in SUBSET Windows : ApplyPrefsOnce(i, c, wm, blank)
    \/ \E i \in DOMAIN splitTimers : \E ws \in {0, splitTimers[i].screen} : SplitTimer(i, ws)
    \/ Tick(NextDue)
    \/ \E ar \in StartupAreas : FileLoad(ar)
    \/ Unregister

StartupSpec == StartupInit /\ [][StartupNext]_vars

-----------------------------------------------------------------------------
(* version_adapter.py called directly *)

\* Python's bool as the caller sees it
Bool(b) == IF b THEN "True" ELSE "False"

\* the screen that holds the area (any screen for None)
ScreenOf(ar, areaId) ==
    IF \E s \in DOMAIN ar : IndexOf(ar[s], areaId) # 0
    THEN CHOOSE s \in DOMAIN ar : IndexOf(ar[s], areaId) # 0
    ELSE 1

\* A direct call as calls keeps it: the function, the context or the
\* window / screen / area handed over, and the other arguments
Direct(fn, c, x, y) == [fn |-> fn, c |-> c, x |-> x, y |-> y]

\* one more direct call, and what the version_adapter functions leave alone
AdapterFrame(call) ==
    /\ calls.made < MaxCalls
    /\ calls' = [made |-> calls.made + 1, last |-> call]
    /\ handler' = call.fn
    /\ gotPrefs' = ""
    /\ UNCHANGED <<hostVersion, prefs, timerActive, lastPrefs, pollTimers, immTimers,
                   splitTimers, splitFunc, sinceCall, prefChanges, applyOnStartup,
                   loadPostHooked, applyTimers>>

IsVersionAtLeast(major, minor, patch) ==
    /\ AdapterFrame(Direct("is_version_at_least", << >>, <<major, minor, patch>>, ""))
    /\ ret' = is_version_at_least(major, minor, patch)
    /\ hostOps' = << >>
    /\ UNCHANGED <<areas, hostFaults>>

CheckArea(c) ==
    /\ AdapterFrame(Direct("check_area", c, "", ""))
    /\ ret' = Bool(check_area(areas, c.window, c.winScreen, c.screen, c.area))
    /\ hostOps' = << >>
    /\ UNCHANGED <<areas, hostFaults>>

SafeAreaClose(c) ==
    /\ AdapterFrame(Direct("safe_area_close", c, "", ""))
    /\ \E o \in safe_area_close(areas, << >>, c.screen, c.window, c.winScreen, c.area) :
          areas' = o.areas /\ hostOps' = o.ops /\ ret' = Bool(o.ok)
    /\ CountFaults

SafeAreaSplit(c, direction, factor) ==
    /\ AdapterFrame(Direct("safe_area_split", c, direction, factor))
    /\ \E o \in safe_area_split(areas, << >>, c.screen, c.window, c.winScreen, c.area,
                                direction, factor) :
          areas' = o.areas /\ hostOps' = o.ops /\ ret' = Bool(o.ok)
    /\ CountFaults

SafeChangeAreaType(areaId, new_type) ==
    /\ AdapterFrame(Direct("safe_change_area_type", areaId, new_type, ""))
    /\ \E o \in safe_change_area_type(areas, << >>, ScreenOf(areas, areaId), areaId,
                                      new_type) :
          areas' = o.areas /\ hostOps' = o.ops /\ ret' = Bool(o.ok)
    /\ CountFaults

\* raises: reading bpy.context raises inside the function's try block
ValidateTimerContext(c, raises) ==
    /\ AdapterFrame(Direct("validate_timer_context", c, raises, ""))
    /\ ret' = IF raises THEN "False"
              ELSE Bool(validate_timer_context(areas, c.window, c.winScreen, c.screen))
    /\ hostOps' = << >>
    /\ UNCHANGED <<areas, hostFaults>>

\* Screens the functions are called on: one area; two areas side by side; a
\* screen too low to split in two rows with an area too narrow to close;
\* a screen with an area of no width and an area of no type
AdapterLayouts(b) ==
    { <<Area(b + 1, "VIEW_3D", 0, 0, 1000, 600)>>,
      <<Area(b + 1, "VIEW_3D", 0, 0, 700, 600),
        Area(b + 2, "OUTLINER", 700, 0, 300, 600)>>,
      <<Area(b + 1, "VIEW_3D", 0, 0, 960, 180),
        Area(b + 2, "OUTLINER", 960, 0, 40, 180)>>,
      <<Area(b + 1, "VIEW_3D", 0, 0, 1000, 600),
        Area(b + 2, "", 1000, 0, 100, 600),
        Area(b + 3, "VIEW_3D", 1100, 0, 0, 600)>> }

AdapterAreas == {Screens(l) : l \in AdapterLayouts(10)}

VersionQueries == {<<4, 5, 0>>, <<4, 2, 0>>, <<5, 0, 0>>}
Directions == {"VERTICAL", "HORIZONTAL", "DIAGONAL"}
Factors == {0, 50000, 500000, 950000, 1000000}
TypeNames == {"OUTLINER", "TIMELINE", ""}

\* bpy.context, or the arguments handed to a function: the area is any area
\* or None, the window and the screens are sound or missing
AdapterContexts ==
    {Context(a, t[1], t[2], t[3], "present") : a \in AreaChoices, t \in ScreenCases}

AdapterInit == Start(AdapterAreas, {DefaultAddonPrefs})

AdapterNext ==
    \/ \E t \in VersionQueries : IsVersionAtLeast(t[1], t[2], t[3])
    \/ \E c \in AdapterContexts : CheckArea(c)
    \/ \E c \in AdapterContexts : SafeAreaClose(c)
    \/ \E c \in AdapterContexts : \E d \in Directions : \E f \in Factors :
          SafeAreaSplit(c, d, f)
    \/ \E a \in AreaChoices : \E t \in TypeNames : SafeChangeAreaType(a, t)
    \/ \E c \in AdapterContexts : \E raises \in BOOLEAN : ValidateTimerContext(c, raises)

AdapterSpec == AdapterInit /\ [][AdapterNext]_vars

-----------------------------------------------------------------------------
(* Properties of the sidebar operators *)

OfType(as, type) == {i \in DOMAIN as : as[i].type = type}

AllOk(ops) == \A i \in DOMAIN ops : ops[i].ok

\* the host carried out n operators named op
Carried(ops, op, n) == Cardinality({i \in DOMAIN ops : ops[i].op = op /\ ops[i].ok}) = n

\* areas a and b lie side by side and fill the place of the area whole
SideBySide(a, b, whole) ==
    /\ a.y = whole.y /\ b.y = whole.y
    /\ a.height = whole.height /\ b.height = whole.height
    /\ Min2(a.x, b.x) = whole.x
    /\ a.width + b.width = whole.width
    /\ Max2(a.x, b.x) = whole.x + (IF a.x < b.x THEN a.width ELSE b.width)

\* areas a and b lie one above the other and fill the place of the area whole
Stacked(a, b, whole) ==
    /\ a.x = whole.x /\ b.x = whole.x
    /\ a.width = whole.width /\ b.width = whole.width
    /\ Min2(a.y, b.y) = whole.y
    /\ a.height + b.height = whole.height
    /\ Max2(a.y, b.y) = whole.y + (IF a.y < b.y THEN a.height ELSE b.height)

\* execute expands the sidebar of screen c.winScreen: the checks pass, the
\* screen holds no sidebar editor, its rightmost main area is at least 200
\* wide and high, and no host operator raises
ExpandStep(c) ==
    /\ ~cancelled(areas, c)
    /\ ~has_sidebar_editors(areas[c.winScreen])
    /\ LET as == areas[c.winScreen]
           main == {i \in DOMAIN as : as[i].type \notin NonMainTypes}
       IN  /\ main # {}
           /\ as[get_rightmost_area(as, main)].width >= MinSplitSize
           /\ as[get_rightmost_area(as, main)].height >= MinSplitSize
    /\ AllOk(hostOps')
    /\ Toggle(c)

\* after the step the screen holds one OUTLINER, cut out of the rightmost main
\* area, no PROPERTIES, and the split_for_properties timer is registered
Expanded(c) ==
    LET as == areas[c.winScreen]
        main == {i \in DOMAIN as : as[i].type \notin NonMainTypes}
        base == as[get_rightmost_area(as, main)]
        as2 == areas'[c.winScreen]
    IN  /\ ret' = "FINISHED"
        /\ Cardinality(OfType(as2, "OUTLINER")) = 1
        /\ OfType(as2, "PROPERTIES") = {}
        /\ IndexOf(as2, base.id) # 0
        /\ \A o \in OfType(as2, "OUTLINER") :
              SideBySide(as2[o], as2[IndexOf(as2, base.id)], base)
        /\ \E i \in DOMAIN splitTimers' :
              splitTimers'[i].screen = c.winScreen /\ splitTimers'[i].ms = SplitDelayMs

\* the split_for_properties timer fires on a screen holding one OUTLINER at
\* least 200 high and no PROPERTIES, the window still shows the screen, and no
\* host operator raises
StackStep(i, ws) ==
    /\ ws = splitTimers[i].screen
    /\ LET as == areas[ws]
       IN  /\ Cardinality(OfType(as, "OUTLINER")) = 1
           /\ OfType(as, "PROPERTIES") = {}
           /\ \A o \in OfType(as, "OUTLINER") : as[o].height >= MinStackHeight
    /\ AllOk(hostOps')
    /\ SplitTimer(i, ws)

\* after the step the screen holds one OUTLINER and one PROPERTIES, which
\* fill the place of the OUTLINER they were cut out of
StackedOutcome(ws) ==
    LET as == areas[ws]
        as2 == areas'[ws]
    IN  /\ Cardinality(OfType(as2, "OUTLINER")) = 1
        /\ Cardinality(OfType(as2, "PROPERTIES")) = 1
        /\ \A o \in OfType(as2, "OUTLINER") : \A q \in OfType(as2, "PROPERTIES") :
              \A w \in OfType(as, "OUTLINER") : Stacked(as2[o], as2[q], as[w])

\* C1: Expand.  When execute runs in a VIEW_3D area with a valid window and
\* screen, on a screen with no OUTLINER or PROPERTIES area and a main area,
\* and the host operators succeed, the screen holds one OUTLINER cut out of
\* the rightmost main area and the split timer is pending; once that timer
\* has fired the screen holds exactly one OUTLINER and exactly one PROPERTIES
\* area, which fill the place of that OUTLINER.
C1_Expand ==
    [][ /\ handler' = "toggle_sidebar" =>
              \A c \in OperatorContexts : ExpandStep(c) => Expanded(c)
        /\ handler' = "split_for_properties" =>
              \A i \in DOMAIN splitTimers : \A ws \in DOMAIN areas :
                  StackStep(i, ws) => StackedOutcome(ws) ]_vars

\* execute found no preferences and gave up on a collapsed sidebar
C1_Witness ==
    /\ handler = "toggle_sidebar"
    /\ ret = "CANCELLED"
    /\ gotPrefs = "None"
    /\ hostOps = << >>
    /\ ~has_sidebar_editors(areas[1])

\* execute collapses the sidebar of screen c.winScreen, and the host carries
\* out one close for each type of sidebar editor the screen holds
CollapseStep(c) ==
    /\ ~cancelled(areas, c)
    /\ has_sidebar_editors(areas[c.winScreen])
    /\ AllOk(hostOps')
    /\ Carried(hostOps', "area_close",
               Cardinality({t \in SidebarTypes : OfType(areas[c.winScreen], t) # {}}))
    /\ Toggle(c)

\* C2: Collapse.  After close_sidebars returns with every host close having
\* succeeded, the screen holds no OUTLINER and no PROPERTIES area, whatever
\* the number of such areas it held.
C2_Collapse ==
    [][ handler' = "toggle_sidebar" =>
           \A c \in OperatorContexts :
               CollapseStep(c) => ~has_sidebar_editors(areas'[c.winScreen]) ]_vars

\* execute closed an OUTLINER, no host operator raised, and an OUTLINER is left
C2_Witness ==
    /\ handler = "toggle_sidebar"
    /\ ret = "FINISHED"
    /\ hostOps = <<Call("area_close", TRUE)>>
    /\ OfType(areas[1], "OUTLINER") # {}

\* the context area is missing or not VIEW_3D, the window is missing, the
\* window has no screen, or check_area(window, screen, area) is false
CancelCase(c) ==
    \/ c.area = 0
    \/ TypeOf(areas, c.area) # "VIEW_3D"
    \/ c.window = 0
    \/ c.winScreen = 0
    \/ ~check_area(areas, c.window, c.winScreen, c.winScreen, c.area)

\* C3: execute returns CANCELLED, invokes no host operator, and leaves the
\* screens and the timers as they were, whenever the context area is missing
\* or not VIEW_3D, the window is missing, the window has no screen, or
\* check_area is false.
C3_CancelLeavesLayout ==
    [][ handler' = "toggle_sidebar" =>
           \/ /\ ret' = "CANCELLED"
              /\ hostOps' = << >>
              /\ areas' = areas
              /\ splitTimers' = splitTimers /\ splitFunc' = splitFunc
              /\ pollTimers' = pollTimers /\ immTimers' = immTimers
           \/ \A c \in OperatorContexts : ~(CancelCase(c) /\ Toggle(c)) ]_vars

\* execute was cancelled by its checks while the sidebar is expanded
C3_Witness ==
    /\ handler = "toggle_sidebar"
    /\ ret = "CANCELLED"
    /\ gotPrefs = ""
    /\ hostOps = << >>
    /\ has_sidebar_editors(areas[1])

\* C10: get_editorbar_prefs never returns None: it returns the addon's
\* preferences when the package is in context.preferences.addons, and a
\* defaults object otherwise.
C10_PrefsOrDefaults ==
    [][ handler' = "debug_prefs" =>
           \A c \in PrefsContexts :
               DebugPrefs(c) =>
                   gotPrefs' = IF c.addons = "present" THEN "AddonPrefs"
                               ELSE "DefaultPrefs" ]_vars

\* debug_prefs got None for the preferences and raised on reading them
C10_Witness ==
    /\ handler = "debug_prefs"
    /\ gotPrefs = "None"
    /\ ret = "AttributeError"

-----------------------------------------------------------------------------
(* Properties of the preference monitor *)

\* the four values a poll tick reads
Snapshot ==
    [left_sidebar |-> prefs.left_sidebar, split_factor |-> prefs.split_factor,
     stack_ratio |-> prefs.stack_ratio, flip_editors |-> prefs.flip_editors]

\* the poll timer i fires under c, a preferences context that validates as a
\* timer context
OpenTick(i, c, readable) ==
    /\ _is_preferences_context(areas, c)
    /\ validate_timer_context(areas, c.window, c.winScreen, c.screen)
    /\ PollTick(i, c, readable)

\* the poll timer i fires under c, which is no preferences context or does
\* not validate as a timer context
ClosedTick(i, c, readable) ==
    /\ \/ ~_is_preferences_context(areas, c)
       \/ ~validate_timer_context(areas, c.window, c.winScreen, c.screen)
    /\ PollTick(i, c, readable)

\* C4: Debounce.  At most one _immediate_update timer is pending; a call of
\* schedule_immediate_update leaves exactly one, due 50 ms after the call;
\* _update_viewports runs only once 50 ms have passed since the last call,
\* and leaves none pending, so a burst of calls less than 50 ms apart is
\* followed by one run, after its last call; and a pending update is run
\* unless a file load or unregister drops it.
C4_Debounce ==
    /\ [](Len(immTimers) <= 1)
    /\ [][ /\ handler' = "on_sidebar_settings_update" =>
                 immTimers' = <<DebounceDelayMs>> /\ sinceCall' = 0
           /\ handler' = "_immediate_update" =>
                 sinceCall >= DebounceDelayMs /\ immTimers' = << >> ]_vars
    /\ (immTimers # << >>) ~> (handler \in {"_immediate_update", "load", "unregister"})

\* the update ran after two preference changes, and none is pending
C4_Witness ==
    /\ handler = "_immediate_update"
    /\ prefChanges = MaxPrefChanges
    /\ immTimers = << >>

\* C5: every run of _timer_callback in a preferences context that validates
\* as a timer context returns 0.15, so that the host re-arms the timer 150 ms
\* later, and leaves _timer_active true, also when reading the preferences
\* raises.
C5_PollsWhileOpen ==
    [][ handler' = "_timer_callback" =>
           \/ ret' = "0.15" /\ timerActive' = TRUE /\ pollTimers' = <<PollIntervalMs>>
           \/ \A i \in DOMAIN pollTimers : \A c \in Contexts : \A readable \in BOOLEAN :
                  ~OpenTick(i, c, readable) ]_vars

\* a tick that could not read the preferences kept the timer going
C5_Witness ==
    /\ handler = "_timer_callback"
    /\ ret = "0.15"
    /\ lastPrefs = << >>
    /\ timerActive
    /\ pollTimers = <<PollIntervalMs>>

\* C6: a poll tick outside a preferences context, or in an invalid timer
\* context, sets _timer_active to false and returns None, after which the
\* polling timer is not registered; it is registered again only by
\* activate_monitoring.
C6_StopsWhenClosed ==
    [][ /\ handler' = "_timer_callback" =>
              \/ ret' = "None" /\ timerActive' = FALSE /\ pollTimers' = << >>
              \/ \A i \in DOMAIN pollTimers : \A c \in Contexts : \A readable \in BOOLEAN :
                     ~ClosedTick(i, c, readable)
        /\ (pollTimers = << >> /\ pollTimers' # << >>) => handler' = "draw" ]_vars

\* a tick stopped the monitor
C6_Witness ==
    /\ handler = "_timer_callback"
    /\ ret = "None"
    /\ ~timerActive
    /\ pollTimers = << >>

\* C7: in every reachable state, a call of activate_monitoring in a
\* preferences context leaves the polling timer registered.
C7_DrawStartsMonitor ==
    [][ handler' = "draw" =>
           \A c \in Contexts :
               (_is_preferences_context(areas, c) /\ Draw(c)) => pollTimers' # << >> ]_vars

\* the panel was drawn, the monitor counts as active, and no timer polls
C7_Witness ==
    /\ handler = "draw"
    /\ timerActive
    /\ pollTimers = << >>

\* C8: a poll tick that reads the four values finds them equal to _last_prefs,
\* and then schedules no update and leaves _last_prefs as it was, or finds a
\* difference, and then sets _last_prefs to the values and leaves exactly one
\* debounced update pending, due in 50 ms.
C8_PollDiff ==
    [][ handler' = "_timer_callback" =>
           \A i \in DOMAIN pollTimers : \A c \in Contexts :
               OpenTick(i, c, TRUE) =>
                   IF lastPrefs = <<Snapshot>>
                   THEN immTimers' = immTimers /\ lastPrefs' = lastPrefs
                   ELSE /\ lastPrefs' = <<Snapshot>>
                        /\ immTimers' = <<DebounceDelayMs>> ]_vars

\* a tick found the changed preferences and scheduled the update
C8_Witness ==
    /\ handler = "_timer_callback"
    /\ prefChanges > 0
    /\ lastPrefs = <<Snapshot>>
    /\ immTimers = <<DebounceDelayMs>>
    /\ sinceCall = 0

\* the screen of c holds no sidebar editor, or c does not validate as a
\* timer context, or its window shows another screen
NothingToUpdate(c) ==
    \/ ~validate_timer_context(areas, c.window, c.winScreen, c.screen)
    \/ c.winScreen # c.screen
    \/ c.screen \in DOMAIN areas /\ ~has_sidebar_editors(areas[c.screen])

\* C9: when _update_viewports runs and the current screen holds no OUTLINER
\* and no PROPERTIES area, or validate_timer_context() is false, or the
\* window's screen differs from the context screen, it invokes no host
\* operator, registers no timer and leaves the screens as they were.
C9_UpdateOnlyWithSidebars ==
    [][ handler' = "_immediate_update" =>
           \/ /\ hostOps' = << >>
              /\ areas' = areas
              /\ splitTimers' = splitTimers /\ splitFunc' = splitFunc
              /\ pollTimers' = pollTimers
              /\ immTimers' = << >>
           \/ \A i \in DOMAIN immTimers : \A c \in Contexts :
                 ~(NothingToUpdate(c) /\ ImmediateUpdate(i, c)) ]_vars

\* the update ran after a preference change and left the collapsed sidebar
\* collapsed
C9_Witness ==
    /\ handler = "_immediate_update"
    /\ prefChanges > 0
    /\ hostOps = << >>
    /\ ~has_sidebar_editors(areas[1])
    /\ splitTimers = << >>

-----------------------------------------------------------------------------
(* editorbar.py called directly *)

\* restore_sidebars(screen, window, context): c.screen is the screen,
\* c.window the window, c.winScreen what the window shows, c.addons the
\* state of context.preferences.addons
RestoreSidebars(c) ==
    /\ calls.made < MaxCalls
    /\ calls' = [made |-> calls.made + 1, last |-> Direct("restore_sidebars", c, "", "")]
    /\ handler' = "restore_sidebars"
    /\ \E r \in restore_sidebars(areas, << >>, splitFunc, splitTimers, c.screen, c.window,
                                 c.winScreen, c.addons) :
          /\ areas' = r.areas /\ hostOps' = r.ops
          /\ splitFunc' = r.func /\ splitTimers' = r.timers
          /\ ret' = r.ret
    /\ gotPrefs' = PrefsKind(get_editorbar_prefs(c.addons))
    /\ CountFaults
    /\ UNCHANGED <<applyOnStartup, loadPostHooked, applyTimers>>
    /\ UNCHANGED <<hostVersion, prefs, timerActive, lastPrefs, pollTimers, immTimers,
                   sinceCall, prefChanges>>

\* split_for_properties(screen, window, stack_ratio, flip_editors)
SplitForProperties(c, stack_ratio, flip_editors) ==
    /\ calls.made < MaxCalls
    /\ calls' = [made |-> calls.made + 1,
                 last |-> Direct("split_for_properties", c, stack_ratio, flip_editors)]
    /\ handler' = "split_for_properties"
    /\ \E o \in split_for_properties(areas, << >>, c.screen, c.window, c.winScreen,
                                     stack_ratio, flip_editors) :
          areas' = o.areas /\ hostOps' = o.ops
    /\ ret' = "None"
    /\ gotPrefs' = ""
    /\ CountFaults
    /\ UNCHANGED <<applyOnStartup, loadPostHooked, applyTimers>>
    /\ UNCHANGED <<hostVersion, prefs, timerActive, lastPrefs, pollTimers, immTimers,
                   splitTimers, splitFunc, sinceCall, prefChanges>>

\* the screen and the window handed over: the window shows the screen, or
\* has moved on to another one
SidebarContexts ==
    UNION { {Context(0, w, ws, w, ad) : ws \in {0, w}, ad \in AddonCases}
            : w \in DOMAIN areas }

\* stack_ratio as a split factor: below one half, one half, above
StackFactors == {300000, 500000, 660000}

SidebarInit == Start(InitAreas, OperatorPrefValues)

SidebarNext ==
    \/ \E c \in SidebarContexts : RestoreSidebars(c)
    \/ \E c \in SidebarContexts : \E f \in StackFactors : \E flip \in BOOLEAN :
          SplitForProperties(c, f, flip)

SidebarSpec == SidebarInit /\ [][SidebarNext]_vars

-----------------------------------------------------------------------------
(* version_adapter.py: C11 .. C16 *)

\* the area of a call's arguments, as screen.areas holds it (<< >> when it
\* does not)
ArgArea(c) ==
    IF c.screen \in DOMAIN areas /\ IndexOf(areas[c.screen], c.area) # 0
    THEN areas[c.screen][IndexOf(areas[c.screen], c.area)]
    ELSE << >>

\* window, screen and area are present, the window shows the screen, the
\* screen holds the area, and the area has a size and a type
SoundArea(c) ==
    /\ c.window # 0 /\ c.screen # 0 /\ c.area # 0
    /\ c.winScreen = c.screen
    /\ ArgArea(c) # << >>
    /\ ArgArea(c).width > 0 /\ ArgArea(c).height > 0
    /\ ArgArea(c).type # ""

OldHost == ~TupleGE(hostVersion, <<4, 5, 0>>)

\* C11: is_version_at_least(major, minor, patch) returns the boolean of
\* host version >= (major, minor, patch), whatever the triple is.
C11_VersionAtLeast ==
    [][handler' = "is_version_at_least"
         => ret' = Bool(TupleGE(hostVersion, calls'.last.x))]_vars

\* a triple other than (4, 5, 0) has been asked for, and the answer was None
C11_Witness ==
    /\ handler = "is_version_at_least"
    /\ calls.last.x = <<4, 2, 0>>
    /\ ret = "None"

\* C12: a safe_* wrapper whose host operator raises returns False, and
\* validate_timer_context returns False when reading the context raises.
C12_NoFailurePropagates ==
    [][/\ handler' \in {"safe_area_close", "safe_area_split", "safe_change_area_type"}
          /\ Raised(hostOps') # {}
          => ret' = "False" /\ areas' = areas
       /\ handler' = "validate_timer_context" /\ calls'.last.x = TRUE
          => ret' = "False" /\ areas' = areas]_vars

\* the host's area_close has raised inside safe_area_close
C12_Witness ==
    /\ handler = "safe_area_close"
    /\ hostOps = <<Call("area_close", FALSE)>>
    /\ ret = "False"

\* the conditions under which safe_area_split hands the split to the host
SplitAllowed(c, direction, factor) ==
    /\ SoundArea(c)
    /\ direction \in {"VERTICAL", "HORIZONTAL"}
    /\ 0 < factor /\ factor < 1000000
    /\ OldHost =>
          /\ (IF direction = "VERTICAL" THEN ArgArea(c).width ELSE ArgArea(c).height) >= 200
          /\ 100000 <= factor /\ factor <= 900000

\* C13: safe_area_split invokes the host's split exactly when check_area
\* holds, the direction is VERTICAL or HORIZONTAL, 0 < factor < 1 and, on a
\* host older than 4.5.0, the area is at least 200 px in the split dimension
\* and 0.1 <= factor <= 0.9; otherwise it returns False and the areas are
\* unchanged.
C13_SplitGuards ==
    [][handler' = "safe_area_split" =>
         LET k == calls'.last
         IN  IF SplitAllowed(k.c, k.x, k.y)
             THEN Len(hostOps') = 1 /\ hostOps'[1].op = "area_split"
             ELSE hostOps' = << >> /\ ret' = "False" /\ areas' = areas]_vars

\* an old host has refused to cut a sound area at 0.95
C13_Witness ==
    /\ handler = "safe_area_split"
    /\ OldHost
    /\ SoundArea(calls.last.c)
    /\ calls.last.x = "VERTICAL" /\ calls.last.y = 950000
    /\ hostOps = << >> /\ ret = "False"

\* the conditions under which safe_area_close hands the close to the host
CloseAllowed(c) ==
    /\ SoundArea(c)
    /\ OldHost =>
          /\ Len(areas[c.screen]) >= 2
          /\ ArgArea(c).width >= 50 /\ ArgArea(c).height >= 50

\* C14: safe_area_close invokes the host's close exactly when check_area
\* holds and, on a host older than 4.5.0, the screen holds at least two areas
\* and the area is at least 50 px wide and high; otherwise it returns False
\* and the areas are unchanged.  It returns True exactly when the host's
\* close was invoked and did not raise.
C14_CloseGuards ==
    [][handler' = "safe_area_close" =>
         /\ IF CloseAllowed(calls'.last.c)
            THEN Len(hostOps') = 1 /\ hostOps'[1].op = "area_close"
            ELSE hostOps' = << >> /\ ret' = "False" /\ areas' = areas
         /\ ret' = "True" <=> hostOps' = <<Call("area_close", TRUE)>>]_vars

\* an old host has closed one of two areas
C14_Witness ==
    /\ handler = "safe_area_close"
    /\ OldHost
    /\ hostOps = <<Call("area_close", TRUE)>>
    /\ ret = "True"
    /\ Len(areas[calls.last.c.screen]) = 1

\* C15: for an area and a new_type of the whitelist, safe_change_area_type
\* sets area.type to new_type and returns True (the assignment not raising);
\* for a missing area or a new_type outside the whitelist it returns False
\* and leaves the type as it was.
C15_ChangeType ==
    [][handler' = "safe_change_area_type" =>
         LET a == calls'.last.c
             t == calls'.last.x
             s == ScreenOf(areas, a)
         IN  IF a # 0 /\ t \in valid_types
             THEN Raised(hostOps') = {} =>
                     /\ areas' = [areas EXCEPT ![s][IndexOf(areas[s], a)].type = t]
                     /\ ret' = "True"
             ELSE ret' = "False" /\ areas' = areas]_vars

\* the 3D viewport of the main screen has become an Outliner
C15_Witness ==
    /\ handler = "safe_change_area_type"
    /\ calls.made = 1
    /\ calls.last.c = 11 /\ calls.last.x = "OUTLINER"
    /\ TypeOf(areas, 11) = "OUTLINER"
    /\ ret = "True"

\* C16: check_area returns True exactly when window, screen and area are
\* present, window.screen is the screen, the screen holds the area, and the
\* area has a width and a height above 0 and a type; it returns False
\* otherwise, and changes nothing.
C16_CheckArea ==
    [][handler' = "check_area" =>
         /\ ret' = Bool(SoundArea(calls'.last.c))
         /\ areas' = areas
         /\ hostOps' = << >>]_vars

\* check_area has turned down an area that its screen holds, for its size
C16_Witness ==
    /\ handler = "check_area"
    /\ calls.last.c.window # 0
    /\ calls.last.c.winScreen = calls.last.c.screen
    /\ ArgArea(calls.last.c) # << >>
    /\ ArgArea(calls.last.c).type # ""
    /\ ret = "False"

-----------------------------------------------------------------------------
(* Reset and startup: C17 .. C20 *)

C17_NoTimerAfterUnregister ==
    handler = "unregister" =>
        /\ pollTimers = << >>
        /\ immTimers = << >>
        /\ splitTimers = << >>
        /\ applyTimers = << >>

\* the addon was disabled while a split_for_properties timer was pending,
\* and the timer is still registered
C17_Witness ==
    /\ handler = "unregister"
    /\ splitTimers # << >>
    /\ ~loadPostHooked

\* a run of applyPrefsOnce that touched nothing but its own timer entry
StartupIdle ==
    /\ hostOps' = << >>
    /\ areas' = areas
    /\ splitTimers' = splitTimers /\ splitFunc' = splitFunc
    /\ pollTimers' = pollTimers /\ immTimers' = immTimers
    /\ Len(applyTimers') = Len(applyTimers) - 1

\* C19: when applyOnStartup is false, or the addon preferences or the window
\* manager are unavailable, applyPrefsOnce invokes no host operator on any
\* window and registers no timer.
C19_StartupDisabled ==
    [][handler' = "applyPrefsOnce" =>
         /\ ~applyOnStartup => StartupIdle
         /\ \/ StartupIdle
            \/ \A i \in DOMAIN applyTimers : \A c \in PrefsContexts :
                 \A wm \in BOOLEAN : \A blank \in SUBSET Windows :
                    ~(/\ c.addons # "present" \/ ~wm
                      /\ ApplyPrefsOnce(i, c, wm, blank))]_vars

\* applyPrefsOnce has run with applyOnStartup off over a bare 3D viewport
C19_Witness ==
    /\ handler = "applyPrefsOnce"
    /\ ~applyOnStartup
    /\ areas[1] = <<Area(11, "VIEW_3D", 0, 0, 1000, 600)>>
    /\ hostOps = << >>
    /\ splitTimers = << >>
    /\ applyTimers = << >>

\* applyPrefsOnce rebuilds: applyOnStartup is on, the preferences and the
\* window manager are there, every window but those of blank shows a screen
\* whose rightmost main area is at least 200 wide and high, and no host
\* operator raises
RebuildStep(i, c, blank) ==
    /\ applyOnStartup
    /\ c.addons = "present"
    /\ \A w \in Windows \ blank :
          LET as == areas[w]
              main == {k \in DOMAIN as : as[k].type \notin NonMainTypes}
          IN  /\ main # {}
              /\ as[get_rightmost_area(as, main)].width >= MinSplitSize
              /\ as[get_rightmost_area(as, main)].height >= MinSplitSize
    /\ AllOk(hostOps')
    /\ ApplyPrefsOnce(i, c, TRUE, blank)

\* after the step every screen of ws holds an OUTLINER, and a
\* split_for_properties timer is pending for it
Rebuilt(ws) ==
    \A w \in ws :
        /\ OfType(areas'[w], "OUTLINER") # {}
        /\ \E k \in DOMAIN splitTimers' :
              splitTimers'[k].screen = w /\ splitTimers'[k].ms = SplitDelayMs

\* C20: with applyOnStartup true, applyPrefsOnce rebuilds the layout in every
\* window: for any number of windows that each show a screen with a main
\* area, and the host operators succeeding, applyPrefsOnce leaves every
\* window's screen with an OUTLINER and a split_for_properties timer pending,
\* and once that timer has run the screen holds an OUTLINER and a PROPERTIES
\* area.
C20_RebuildEveryWindow ==
    [][ /\ handler' = "applyPrefsOnce" =>
              \A i \in DOMAIN applyTimers : \A c \in PrefsContexts :
                  RebuildStep(i, c, {}) => Rebuilt(Windows)
        /\ handler' = "split_for_properties" =>
              \A i \in DOMAIN splitTimers : \A ws \in DOMAIN areas :
                  StackStep(i, ws) =>
                      /\ OfType(areas'[ws], "OUTLINER") # {}
                      /\ OfType(areas'[ws], "PROPERTIES") # {} ]_vars

\* applyPrefsOnce has split both windows, and only the last window's
\* split_for_properties timer is pending
C20_Witness ==
    /\ handler = "applyPrefsOnce"
    /\ applyOnStartup
    /\ Carried(hostOps, "area_split", NumWindows)
    /\ AllOk(hostOps)
    /\ \A w \in Windows : OfType(areas[w], "OUTLINER") # {}
    /\ Len(splitTimers) = 1
    /\ splitTimers[1].screen = NumWindows

-----------------------------------------------------------------------------
(* editorbar.py called directly: C21, C22 *)

C22_RestoreReturns ==
    [][handler' = "restore_sidebars" =>
         LET c == calls'.last.c
             as == areas[c.screen]
             as2 == areas'[c.screen]
             splitOk == hostOps' # << >> /\ hostOps'[1] = Call("area_split", TRUE)
         IN  /\ (\A i \in DOMAIN as : as[i].type \in NonMainTypes) \/ ~splitOk =>
                   /\ ret' = "False"
                   /\ areas' = areas
                   /\ splitTimers' = splitTimers
             /\ ret' = "True" =>
                   /\ splitOk
                   /\ Len(hostOps') = 2 /\ hostOps'[2].op = "area.type"
                   /\ hostOps'[2].ok => as2[Len(as2)].type = "OUTLINER"
                   /\ \E k \in DOMAIN splitTimers' :
                         /\ splitTimers'[k].screen = c.screen
                         /\ splitTimers'[k].ms = SplitDelayMs]_vars

\* restore_sidebars has raised on a screen without a main area
C22_Witness ==
    /\ handler = "restore_sidebars"
    /\ ret = "raise"
    /\ gotPrefs = "None"
    /\ \A i \in DOMAIN areas[calls.last.c.screen] :
          areas[calls.last.c.screen][i].type \in NonMainTypes

=============================================================================
